---------------------------- MODULE Spec2Model ----------------------------
(***************************************************************************)
(* A model of sports/scores.py: the live-score feed reader.                *)
(*                                                                         *)
(* Python strings whose characters matter (item titles and descriptions,   *)
(* team names, search patterns, score texts) are sequences of              *)
(* one-character strings.  Python indices are 0-based and the helper       *)
(* operators below keep them 0-based, so that the index arithmetic of the  *)
(* source (i_close + 1, i_vs + 2, i_hyph + 2) is carried over unchanged.   *)
(* Sport names and dates, whose characters no operation inspects          *)
(* one by one, are atomic strings.                                         *)
(*                                                                         *)
(* The library keeps no state between calls.  The state of the model is    *)
(* the call in progress (operation and arguments), the locals of that call *)
(* that outlive a step, and its outcome: a returned value or a raised      *)
(* exception.                                                              *)
(***************************************************************************)
EXTENDS Integers, Sequences, FiniteSets, TLC

VARIABLES
    call,        \* the operation invoked and its arguments
    result,      \* its outcome: pending, a returned value, or a raised exception
    match_info,  \* _parse_match_info's local dict as it stood when the call ended
    i,           \* all_matches: number of sports of the list already processed
    matches,     \* all_matches: the local dict sport -> list of Match
    fetched      \* all_matches: the get_sport_scores calls made so far, with outcomes

vars == <<call, result, match_info, i, matches, fetched>>

---------------------------------------------------------------------------
(* Bounds of the model. *)

\* longest feed (number of <item> nodes) the environment serves
MaxItems == 2

\* longest generated text that follows the league prefix
MaxTail == 4

\* longest generated match_score text
MaxScoreLen == 5

---------------------------------------------------------------------------
(* Python's str operations, 0-based. *)

Min(S) == CHOOSE x \in S : \A y \in S : x <= y

Max(S) == CHOOSE x \in S : \A y \in S : x >= y

\* s[a:b] for 0 <= a and 0 <= b: the end is clamped, an inverted range is empty
Slice(s, a, b) ==
    LET hi == IF b > Len(s) THEN Len(s) ELSE b
    IN  IF a >= hi THEN <<>> ELSE SubSeq(s, a + 1, hi)

\* s[a:]
SliceFrom(s, a) == Slice(s, a, Len(s))

\* the 0-based positions at which sub occurs in s
Occurrences(s, sub) ==
    {k \in 0..(Len(s) - Len(sub)) : SubSeq(s, k + 1, k + Len(sub)) = sub}

\* the least position of a set of positions, or -1 when there is none
FirstOf(S) == IF S = {} THEN -1 ELSE Min(S)

\* str.find(sub): the first position of sub, or -1.  str.index(sub) is the
\* same search and raises ValueError where find gives -1; its callers below
\* test for -1 and raise.
Find(s, sub) == FirstOf(Occurrences(s, sub))

\* sub in s
Contains(s, sub) == Occurrences(s, sub) # {}

IsSpace(c) == c \in {" ", "\t", "\n", "\r"}

\* s cut down to the span of the positions in keep
Span(s, keep) == IF keep = {} THEN <<>> ELSE SubSeq(s, Min(keep), Max(keep))

\* str.strip(): leading and trailing whitespace removed
Strip(s) == Span(s, {k \in 1..Len(s) : ~IsSpace(s[k])})

\* str.replace(old, new) for one-character old and new
Replace(s, old, new) == [k \in 1..Len(s) |-> IF s[k] = old THEN new ELSE s[k]]

RECURSIVE Split(_, _)
RECURSIVE SplitAt(_, _, _)
\* str.split(sep) for a one-character sep: every occurrence of sep cuts
Split(s, sep) == SplitAt(s, sep, Find(s, <<sep>>))

\* the split of s whose first sep is at position k (-1: none)
SplitAt(s, sep, k) ==
    IF k = -1 THEN <<s>>
    ELSE <<Slice(s, 0, k)>> \o Split(SliceFrom(s, k + 1), sep)

\* str.split(sep, 1): only the first occurrence of sep cuts
SplitOnceAt(s, k) ==
    IF k = -1 THEN <<s>> ELSE <<Slice(s, 0, k), SliceFrom(s, k + 1)>>

UpperAlpha ==
    <<"A", "B", "C", "D", "E", "F", "G", "H", "I", "J", "K", "L", "M",
      "N", "O", "P", "Q", "R", "S", "T", "U", "V", "W", "X", "Y", "Z">>

LowerAlpha ==
    <<"a", "b", "c", "d", "e", "f", "g", "h", "i", "j", "k", "l", "m",
      "n", "o", "p", "q", "r", "s", "t", "u", "v", "w", "x", "y", "z">>

LowerChar(c) ==
    IF \E k \in 1..Len(UpperAlpha) : UpperAlpha[k] = c
    THEN LowerAlpha[CHOOSE k \in 1..Len(UpperAlpha) : UpperAlpha[k] = c]
    ELSE c

\* str.lower() on a character sequence
LowerSeq(s) == [k \in 1..Len(s) |-> LowerChar(s[k])]

\* re.search(re.compile(pattern, re.I), string) is not None, for a pattern of
\* letters and spaces only (no regular-expression metacharacter): a
\* case-insensitive substring search
Search(pattern, string) == Contains(LowerSeq(string), LowerSeq(pattern))

---------------------------------------------------------------------------
(* Python values and outcomes. *)

\* the empty dict
EmptyDict == [k \in {} |-> <<>>]

\* d[key] = value
Put(d, key, value) == (key :> value) @@ d

Return(v) == [kind |-> "return", exc |-> "none", args |-> <<>>, value |-> v]

Raise(e, a) == [kind |-> "raise", exc |-> e, args |-> a, value |-> <<>>]

Pending == [kind |-> "pending", exc |-> "none", args |-> <<>>, value |-> <<>>]

\* what str.find returns: an int
StrFind(s, sub) == [type |-> "int", value |-> Find(s, sub)]

\* obj.text exists on an Element; an int has no such attribute
HasText(obj) == obj.type = "Element"

Word_description == <<"d", "e", "s", "c", "r", "i", "p", "t", "i", "o", "n">>

Word_pubDate == <<"p", "u", "b", "D", "a", "t", "e">>

Word_guid == <<"g", "u", "i", "d">>

---------------------------------------------------------------------------
(* _parse_match_info(match, soccer), in the order of its statements.  Each  *)
(* stage takes and gives [exc, match_info, match]: the exception raised so *)
(* far ("none" if none), the local dict, and the local string `match` as   *)
(* re-sliced so far.  The indices a stage searches for are the parameters  *)
(* of the operator that uses them, under the names the source gives them.  *)

Stage(e, d, m) == [exc |-> e, match_info |-> d, match |-> m]

\* lines 65-67, with the indices of lines 63-64
LeagueAt(text, i_open, i_close) ==
    IF i_open = -1 \/ i_close = -1
    THEN Stage("ValueError", EmptyDict, text)
    ELSE Stage("none",
               Put(EmptyDict, "league", Strip(Slice(text, i_open + 1, i_close))),
               SliceFrom(text, i_close + 1))

\* lines 61-67: the league between the first '(' and the first ')'
ParseLeague(text) == LeagueAt(text, Find(text, <<"(">>), Find(text, <<")">>))

\* a variant that keeps the '#' characters of the team names
TeamsAtKeepHash(st, i_vs, i_colon) ==
    IF i_vs = -1 \/ i_colon = -1
    THEN Stage("ValueError", st.match_info, st.match)
    ELSE Stage("none",
               Put(Put(st.match_info, "home_team", Strip(Slice(st.match, 0, i_vs))),
                   "away_team", Strip(Slice(st.match, i_vs + 2, i_colon))),
               SliceFrom(st.match, i_colon))

\* a variant that defaults instead of failing when "vs" is missing: the text
\* up to the ':' becomes home_team and away_team is left empty
TeamsAtDefaultNoVs(st, i_vs, i_colon) ==
    IF i_colon = -1
    THEN Stage("ValueError", st.match_info, st.match)
    ELSE IF i_vs = -1
    THEN Stage("none",
               Put(Put(st.match_info, "home_team",
                       Strip(Replace(Slice(st.match, 0, i_colon), "#", " "))),
                   "away_team", <<>>),
               SliceFrom(st.match, i_colon))
    ELSE Stage("none",
               Put(Put(st.match_info, "home_team",
                       Strip(Replace(Slice(st.match, 0, i_vs), "#", " "))),
                   "away_team",
                   Strip(Replace(Slice(st.match, i_vs + 2, i_colon), "#", " "))),
               SliceFrom(st.match, i_colon))

\* lines 70-72, with the indices of lines 68-69
TeamsAt(st, i_vs, i_colon) ==
    IF i_vs = -1 \/ i_colon = -1
    THEN Stage("ValueError", st.match_info, st.match)
    ELSE Stage("none",
               Put(Put(st.match_info, "home_team",
                       Strip(Replace(Slice(st.match, 0, i_vs), "#", " "))),
                   "away_team",
                   Strip(Replace(Slice(st.match, i_vs + 2, i_colon), "#", " "))),
               SliceFrom(st.match, i_colon))

\* the position in s of the first ':' that follows the "vs" at i_vs
ColonAfter(s, i_vs, i_rel) == IF i_vs = -1 \/ i_rel = -1 THEN -1 ELSE i_vs + 2 + i_rel

\* a variant that looks for the ':' only after the "vs" token
ParseTeamsColonAfterVs(st) ==
    IF st.exc # "none" THEN st
    ELSE TeamsAt(st, Find(st.match, <<"v", "s">>),
                 ColonAfter(st.match, Find(st.match, <<"v", "s">>),
                            Find(SliceFrom(st.match,
                                           Find(st.match, <<"v", "s">>) + 2),
                                 <<":">>)))

\* lines 68-72: the teams around the first "vs", up to the first ':'; both
\* searches start at the character after ')'
ParseTeams(st) ==
    IF st.exc # "none" THEN st
    ELSE TeamsAt(st, Find(st.match, <<"v", "s">>), Find(st.match, <<":">>))

\* line 79, with the index of line 78
TimeAt(st, i_hyph) ==
    IF i_hyph = -1
    THEN Stage("ValueError", st.match_info, st.match)
    ELSE Stage("none",
               Put(st.match_info, "match_time", Strip(SliceFrom(st.match, i_hyph + 1))),
               st.match)

\* lines 78-79: the time is what follows the next '-'
ParseTimeSoccer(st) == TimeAt(st, Find(st.match, <<"-">>))

\* lines 76-79, with the index of line 75: the score runs from after the ':'
\* through one character past the first '-'
ScoreAt(st, i_hyph) ==
    IF i_hyph = -1
    THEN Stage("ValueError", st.match_info, st.match)
    ELSE ParseTimeSoccer(
             Stage("none",
                   Put(st.match_info, "match_score",
                       Strip(Slice(st.match, 1, i_hyph + 2))),
                   SliceFrom(st.match, i_hyph + 1)))

\* lines 75-79: soccer
ParseScoreSoccer(st) == ScoreAt(st, Find(st.match, <<"-">>))

\* line 82: node is match.find('description'), read for its .text
TimeFrom(st, node) ==
    IF ~HasText(node)
    THEN Stage("AttributeError", st.match_info, st.match)
    ELSE Stage("none", Put(st.match_info, "match_time", Strip(node.text)), st.match)

\* lines 81-82: any other sport.  `match` is still the str, so
\* match.find('description') is str.find and gives an int
ParseScoreOther(st) ==
    TimeFrom(Stage("none",
                   Put(st.match_info, "match_score", Strip(SliceFrom(st.match, 1))),
                   st.match),
             StrFind(st.match, Word_description))

\* lines 74-82
ParseScore(st, soccer) ==
    IF st.exc # "none" THEN st
    ELSE IF soccer THEN ParseScoreSoccer(st)
    ELSE ParseScoreOther(st)

\* match_info[key] = node.text.strip()
FieldFrom(st, key, node) ==
    IF ~HasText(node)
    THEN Stage("AttributeError", st.match_info, st.match)
    ELSE Stage("none", Put(st.match_info, key, Strip(node.text)), st.match)

\* line 84: match.find('pubDate') on the str
ParseDate(st) ==
    IF st.exc # "none" THEN st
    ELSE FieldFrom(st, "match_date", StrFind(st.match, Word_pubDate))

\* line 85: match.find('guid') on the str
ParseLink(st) ==
    IF st.exc # "none" THEN st
    ELSE FieldFrom(st, "match_link", StrFind(st.match, Word_guid))

\* _parse_match_info, lines 61-87: the last stage; its match_info is returned
\* when its exc is "none", and exc is raised otherwise
parse_match_info(text, soccer) ==
    ParseLink(ParseDate(ParseScore(ParseTeams(ParseLeague(text)), soccer)))

---------------------------------------------------------------------------
(* Match.__init__(sport, match_info). *)

DateGMT == "Mon, 02 Jan 2006 15:04:05 GMT"

DateISO == "2006-01-02 15:04:05"

\* datetime.strptime(text, '%a, %d %b %Y %H:%M:%S %Z') on the date texts the
\* model serves: the first has that format, the second does not
Strptime(text) ==
    IF text = DateGMT
    THEN [ok |-> TRUE,
          value |-> [year |-> 2006, month |-> 1, day |-> 2,
                     hour |-> 15, minute |-> 4, second |-> 5]]
    ELSE [ok |-> FALSE, value |-> <<>>]

\* lines 19-21: every key but match_score and match_date becomes an attribute
Attributes(info) ==
    [key \in DOMAIN info \ {"match_score", "match_date"} |-> info[key]]

\* lines 13-21, with the date of line 16 parsed
MatchWith(sport, info, score, date) ==
    IF ~date.ok THEN Raise("ValueError", <<>>)
    ELSE Return([sport |-> sport,
                 home_score |-> score[1],
                 away_score |-> score[2],
                 match_date |-> date.value,
                 raw |-> info,
                 attrs |-> Attributes(info)])

\* lines 13-21, with the score of line 12 split.  score[0] and score[1] of the
\* source are score[1] and score[2] here (a TLA+ sequence starts at 1).
MatchScored(sport, info, score) ==
    IF Len(score) < 2 THEN Raise("IndexError", <<>>)
    ELSE IF "match_date" \notin DOMAIN info THEN Raise("KeyError", <<"match_date">>)
    ELSE MatchWith(sport, info, score, Strptime(info["match_date"]))

\* a variant that splits at the first '-' only
MatchInitSplitOnce(sport, info) ==
    IF "match_score" \notin DOMAIN info THEN Raise("KeyError", <<"match_score">>)
    ELSE MatchScored(sport, info,
                     SplitOnceAt(info["match_score"],
                                 Find(info["match_score"], <<"-">>)))

\* Match.__init__, lines 11-21
MatchInit(sport, info) ==
    IF "match_score" \notin DOMAIN info THEN Raise("KeyError", <<"match_score">>)
    ELSE MatchScored(sport, info, Split(info["match_score"], "-"))

---------------------------------------------------------------------------
(* The feed and its decoding. *)

\* constants.SOCCER
SOCCER == "soccer"

\* the list of all_matches, lines 150-151
sports ==
    <<"baseball", "basketball", "hockey", "football", "rugby-union",
      "rugby-league", "tennis", "soccer", "handball", "volleyball">>

\* the sport names callers pass: the ten tags, two spelt with capitals, and
\* one the feed host does not know
SportNames ==
    {sports[k] : k \in 1..Len(sports)} \cup {"Soccer", "BASKETBALL", "cricket"}

\* str.lower() on the sport names of the model
Lower(sport) ==
    CASE sport = "Soccer"     -> "soccer"
      [] sport = "BASKETBALL" -> "basketball"
      [] OTHER                -> sport

\* what the GET of line 43 brings back: no response at all, bytes that are
\* not well-formed XML, well-formed XML with no channel under the root, or
\* an RSS document whose channel holds the items
Feed(kind, items) == [kind |-> kind, items |-> items]

\* an <item> node and the text of its four children
Item(title, description, pubDate, guid) ==
    [type |-> "Element", title |-> title, description |-> description,
     pubDate |-> pubDate, guid |-> guid]

\* a variant that treats a channel without items as a malformed feed
load_xml_empty_fails(sport, feed) ==
    CASE feed.kind = "unreachable" -> Raise("ConnectionError", <<>>)
      [] feed.kind = "malformed"   -> Raise("SportError", <<sport>>)
      [] feed.kind = "nochannel"   -> Raise("AttributeError", <<>>)
      [] feed.items = <<>>         -> Raise("SportError", <<sport>>)
      [] OTHER                     -> Return(feed.items)

\* _load_xml, lines 41-46.  requests.get may raise (nothing catches it);
\* ET.fromstring raises ParseError on bytes that are not well-formed, which
\* line 45 turns into SportError(sport); find('channel') gives None when the
\* root has no channel, and None.findall raises AttributeError, which line 45
\* does not catch.
load_xml(sport, feed) ==
    CASE feed.kind = "unreachable" -> Raise("ConnectionError", <<>>)
      [] feed.kind = "malformed"   -> Raise("SportError", <<sport>>)
      [] feed.kind = "nochannel"   -> Raise("AttributeError", <<>>)
      [] OTHER                     -> Return(feed.items)

---------------------------------------------------------------------------
(* The query layer. *)

\* lines 106/109 and 111: the extractor's outcome p to a Match
MatchFrom(sport, p) ==
    IF p.exc # "none" THEN Raise(p.exc, <<>>)
    ELSE MatchInit(sport, p.match_info)

\* lines 105/108: the text of the node that carries the match text
MatchText(sport, item) ==
    IF sport = SOCCER THEN item.description ELSE item.title

\* lines 104-111, the body of the loop: one item to one Match.  ElementTree
\* gives None as the text of an empty node, and None has no index method.
BuildMatch(sport, item) ==
    IF MatchText(sport, item) = <<>> THEN Raise("AttributeError", <<>>)
    ELSE MatchFrom(sport, parse_match_info(MatchText(sport, item), sport = SOCCER))

\* lines 102-113 on the outcomes of the loop body, item by item: the loop
\* has no effect outside its list, so the first item that raises decides
Collect(built) ==
    IF \E k \in DOMAIN built : built[k].kind = "raise"
    THEN built[Min({k \in DOMAIN built : built[k].kind = "raise"})]
    ELSE Return([k \in DOMAIN built |-> built[k].value])

\* lines 100-113, with the sport of line 99 lower-cased and data fetched
ScoresOf(sport, data) ==
    IF data.kind = "raise" THEN data
    ELSE Collect([k \in 1..Len(data.value) |-> BuildMatch(sport, data.value[k])])

\* get_sport_scores, lines 99-113
get_sport_scores(sport_arg, feed) ==
    ScoresOf(Lower(sport_arg), load_xml(Lower(sport_arg), feed))

\* lines 135-136: `a or b and c or d` is a or (b and c) or d
TeamsMatch(home_team, away_team, team1, team2) ==
    \/ Search(team1, home_team)
    \/ (Search(team1, away_team) /\ Search(team2, away_team))
    \/ Search(team2, home_team)

\* lines 134-139 on the list got returned by get_sport_scores: hits are the
\* positions of the records that satisfy the condition
FirstHit(sport, team1, team2, list, hits) ==
    IF hits # {} THEN Return(list[Min(hits)])
    ELSE Raise("MatchError", <<sport, <<team1, team2>>>>)

\* lines 133-139
MatchIn(sport, team1, team2, got) ==
    IF got.kind = "raise" THEN got
    ELSE FirstHit(sport, team1, team2, got.value,
                  {k \in 1..Len(got.value) :
                      TeamsMatch(got.value[k].attrs["home_team"],
                                 got.value[k].attrs["away_team"], team1, team2)})

\* match, lines 129-139
match(sport_arg, team1, team2, feed) ==
    MatchIn(Lower(sport_arg), team1, team2,
            get_sport_scores(Lower(sport_arg), feed))

---------------------------------------------------------------------------
(* The inputs of the model. *)

TitleNBA ==
    <<"(", "N", "B", "A", ")", " ", "L", "a", "k", "e", "r", "s", " ", "v",
      "s", " ", "C", "e", "l", "t", "i", "c", "s", ":", " ", "1", "0", "1",
      "-", "9", "8">>

DescNBA ==
    <<"Q", "4", " ", "2", ":", "3", "0">>

TitleEPL ==
    <<"(", "E", "P", "L", ")", " ", "T", "e", "a", "m", "#", "A", " ", "v",
      "s", " ", "T", "e", "a", "m", "#", "B", ":", " ", "2", "-", "1">>

DescEPL ==
    <<"(", "E", "P", "L", ")", " ", "T", "e", "a", "m", "#", "A", " ", "v",
      "s", " ", "T", "e", "a", "m", "#", "B", ":", " ", "2", "-", "1", " ",
      "-", " ", "4", "5", "'">>

TitleNoVs ==
    <<"(", "N", "B", "A", ")", " ", "L", "a", "k", "e", "r", "s", ":", " ",
      "1", "0", "1", "-", "9", "8">>

DescNoVs ==
    <<"(", "E", "P", "L", ")", " ", "T", "e", "a", "m", "#", "A", ":", " ",
      "2", "-", "1", " ", "-", " ", "4", "5", "'">>

TitleBulls ==
    <<"(", "N", "B", "A", ")", " ", "B", "u", "l", "l", "s", " ", "v", "s",
      " ", "L", "a", "k", "e", "r", "s", ":", " ", "9", "0", "-", "8", "0">>

DescPremier ==
    <<"(", "P", "r", "e", "m", "i", "e", "r", " ", "L", "e", "a", "g", "u",
      "e", ")", " ", "T", "e", "a", "m", "#", "A", " ", "v", "s", " ", "T",
      "e", "a", "m", "#", "B", ":", " ", "2", " ", "-", " ", "1", " ", "4",
      "5", "'">>

TitleEarlyColon ==
    <<"(", "N", "B", "A", ")", " ", "7", ":", "3", "0", " ", "L", "a", "k",
      "e", "r", "s", " ", "v", "s", " ", "C", "e", "l", "t", "i", "c", "s",
      ":", " ", "1", "0", "1", "-", "9", "8">>

Lakers ==
    <<"l", "a", "k", "e", "r", "s">>

Celtics ==
    <<"C", "E", "L", "T", "I", "C", "S">>

TeamA ==
    <<"T", "e", "a", "m", " ", "A">>

GuidText ==
    <<"h", "t", "t", "p", ":", "/", "/", "w", "w", "w", ".", "s", "c", "o",
      "r", "e", "s", "p", "r", "o", ".", "c", "o", "m", "/", "l", "i", "v",
      "e", "s", "c", "o", "r", "e", "/", "1">>


\* the sample items: a basketball item, an item whose title and description
\* both carry a match text, an item with no "vs" in either, and a second
\* basketball item whose description is a soccer text with a single '-'
SampleItems ==
    {Item(TitleNBA, DescNBA, DateGMT, GuidText),
     Item(TitleEPL, DescEPL, DateGMT, GuidText),
     Item(TitleNoVs, DescNoVs, DateGMT, GuidText),
     Item(TitleBulls, DescPremier, DateGMT, GuidText)}

\* the sequences over S of length at most n
SeqsUpTo(S, n) == UNION {[1..k -> S] : k \in 0..n}

\* the feeds the environment may serve
Feeds ==
    {Feed("unreachable", <<>>), Feed("malformed", <<>>), Feed("nochannel", <<>>)}
        \cup {Feed("rss", items) : items \in SeqsUpTo(SampleItems, MaxItems)}

\* the team names callers search for
Patterns == {Lakers, Celtics, TeamA}

\* the texts handed to _parse_match_info: the sample texts, and every text
\* made of a league prefix and a tail of at most MaxTail characters
Heads == {<<>>, <<"(", " ", "L", ")">>, <<")", "(">>}

TailChars == {"v", "s", ":", "-", "#", " "}

SampleTexts ==
    {TitleNBA, DescNBA, TitleEPL, DescEPL, TitleNoVs, DescNoVs, TitleBulls,
     DescPremier, TitleEarlyColon}

Texts ==
    SampleTexts \cup {h \o t : h \in Heads, t \in SeqsUpTo(TailChars, MaxTail)}

\* the match_score texts handed to Match.__init__
ScoreChars == {"-", "1", " "}

ScoreTexts == SeqsUpTo(ScoreChars, MaxScoreLen)

\* a complete match_info dict, as a working extractor would hand over
MatchInfo(score, date) ==
    [key \in {"league", "home_team", "away_team", "match_score", "match_time",
              "match_date", "match_link"} |->
        CASE key = "league"      -> <<"N", "B", "A">>
          [] key = "home_team"   -> Lakers
          [] key = "away_team"   -> Celtics
          [] key = "match_score" -> score
          [] key = "match_time"  -> DescNBA
          [] key = "match_date"  -> date
          [] OTHER               -> GuidText]

---------------------------------------------------------------------------
(* The calls. *)

NoFeed == Feed("none", <<>>)

CallOf(op, sport, team1, team2, feed, text, soccer, info) ==
    [op |-> op, sport |-> sport, team1 |-> team1, team2 |-> team2,
     feed |-> feed, text |-> text, soccer |-> soccer, info |-> info]

Idle == CallOf("idle", "", <<>>, <<>>, NoFeed, <<>>, FALSE, EmptyDict)

Init ==
    /\ call = Idle
    /\ result = Pending
    /\ match_info = EmptyDict
    /\ i = 0
    /\ matches = EmptyDict
    /\ fetched = <<>>

\* a caller invokes _load_xml(sport) and the host answers with feed
CallLoadXml(sport, feed) ==
    /\ call.op = "idle"
    /\ call' = CallOf("load_xml", sport, <<>>, <<>>, feed, <<>>, FALSE, EmptyDict)
    /\ result' = load_xml(sport, feed)
    /\ UNCHANGED <<match_info, i, matches, fetched>>

\* a caller invokes get_sport_scores(sport) and the host answers with feed
CallGetSportScores(sport, feed) ==
    /\ call.op = "idle"
    /\ call' = CallOf("get_sport_scores", sport, <<>>, <<>>, feed, <<>>, FALSE,
                      EmptyDict)
    /\ result' = get_sport_scores(sport, feed)
    /\ UNCHANGED <<match_info, i, matches, fetched>>

\* a caller invokes match(sport, team1, team2) and the host answers with feed
CallMatch(sport, team1, team2, feed) ==
    /\ call.op = "idle"
    /\ call' = CallOf("match", sport, team1, team2, feed, <<>>, FALSE, EmptyDict)
    /\ result' = match(sport, team1, team2, feed)
    /\ UNCHANGED <<match_info, i, matches, fetched>>

\* a caller invokes all_matches(): lines 150-153
CallAllMatches ==
    /\ call.op = "idle"
    /\ call' = CallOf("all_matches", "", <<>>, <<>>, NoFeed, <<>>, FALSE, EmptyDict)
    /\ result' = Pending
    /\ i' = 0
    /\ matches' = EmptyDict
    /\ fetched' = <<>>
    /\ UNCHANGED match_info

\* a variant of the loop that skips a sport whose fetch fails
AllMatchesTurnSkip(sport, got) ==
    /\ fetched' = Append(fetched, [sport |-> sport, outcome |-> got])
    /\ i' = i + 1
    /\ IF got.kind = "raise"
       THEN /\ matches' = matches
            /\ result' = IF i + 1 = Len(sports) THEN Return(matches) ELSE result
       ELSE /\ matches' = Put(matches, sport, got.value)
            /\ result' = IF i + 1 = Len(sports)
                         THEN Return(Put(matches, sport, got.value))
                         ELSE result
    /\ UNCHANGED <<call, match_info>>

\* one turn of the loop of lines 154-155 for sport, whose get_sport_scores
\* call ended as got, and the return of line 156 after the last turn: an
\* exception of get_sport_scores leaves the loop and the function
AllMatchesTurn(sport, got) ==
    /\ fetched' = Append(fetched, [sport |-> sport, outcome |-> got])
    /\ IF got.kind = "raise"
       THEN /\ result' = got
            /\ UNCHANGED <<i, matches>>
       ELSE /\ matches' = Put(matches, sport, got.value)
            /\ i' = i + 1
            /\ result' = IF i + 1 = Len(sports)
                         THEN Return(Put(matches, sport, got.value))
                         ELSE result
    /\ UNCHANGED <<call, match_info>>

\* the next turn of the loop: the host answers the fetch with feed
AllMatchesStep(feed) ==
    /\ call.op = "all_matches"
    /\ result.kind = "pending"
    /\ i < Len(sports)
    /\ AllMatchesTurn(sports[i + 1], get_sport_scores(sports[i + 1], feed))

\* the outcome p of _parse_match_info(text, soccer) reaches the caller
ParseDone(text, soccer, p) ==
    /\ call' = CallOf("parse_match_info", "", <<>>, <<>>, NoFeed, text, soccer,
                      EmptyDict)
    /\ result' = IF p.exc = "none" THEN Return(p.match_info) ELSE Raise(p.exc, <<>>)
    /\ match_info' = p.match_info
    /\ UNCHANGED <<i, matches, fetched>>

\* a caller invokes _parse_match_info(text, soccer)
CallParse(text, soccer) ==
    /\ call.op = "idle"
    /\ ParseDone(text, soccer, parse_match_info(text, soccer))

\* the feed of `before` well-shaped sample items followed by an item whose
\* title and description are text
FeedEndingWith(text, before) ==
    Feed("rss", [k \in 1..before |-> Item(TitleEPL, DescEPL, DateGMT, GuidText)]
                    \o <<Item(text, text, DateGMT, GuidText)>>)

\* a caller invokes get_sport_scores on a feed in which text is the match
\* text of the last item, after `before` sample items whose match text is
\* well shaped
CallScoresOver(text, soccer, before) ==
    /\ call.op = "idle"
    /\ call' = CallOf("get_sport_scores", IF soccer THEN "soccer" ELSE "basketball",
                      <<>>, <<>>, FeedEndingWith(text, before), text, soccer,
                      EmptyDict)
    /\ result' = get_sport_scores(IF soccer THEN "soccer" ELSE "basketball",
                                  FeedEndingWith(text, before))
    /\ UNCHANGED <<match_info, i, matches, fetched>>

\* a caller constructs Match(sport, info)
CallMatchInit(sport, info) ==
    /\ call.op = "idle"
    /\ call' = CallOf("Match", sport, <<>>, <<>>, NoFeed, <<>>, FALSE, info)
    /\ result' = MatchInit(sport, info)
    /\ UNCHANGED <<match_info, i, matches, fetched>>

\* the call is over (returned or raised) and the caller goes on
Finish ==
    /\ call.op # "idle"
    /\ result.kind # "pending"
    /\ call' = Idle
    /\ result' = Pending
    /\ match_info' = EmptyDict
    /\ i' = 0
    /\ matches' = EmptyDict
    /\ fetched' = <<>>

\* the query layer, against the feeds
Next ==
    \/ /\ call.op = "idle"
       /\ \E sport \in SportNames, feed \in Feeds : CallLoadXml(sport, feed)
    \/ /\ call.op = "idle"
       /\ \E sport \in SportNames, feed \in Feeds : CallGetSportScores(sport, feed)
    \/ /\ call.op = "idle"
       /\ \E sport \in SportNames, team1 \in Patterns, team2 \in Patterns,
             feed \in Feeds : CallMatch(sport, team1, team2, feed)
    \/ CallAllMatches
    \/ /\ call.op = "all_matches"
       /\ \E feed \in Feeds : AllMatchesStep(feed)
    \/ Finish

Spec == Init /\ [][Next]_vars

\* the extractor, on every text of the bound
NextParse ==
    \/ /\ call.op = "idle"
       /\ \E text \in Texts, soccer \in BOOLEAN : CallParse(text, soccer)
    \/ /\ call.op = "idle"
       /\ \E text \in Texts, soccer \in BOOLEAN, before \in 0..1 :
             CallScoresOver(text, soccer, before)
    \/ Finish

SpecParse == Init /\ [][NextParse]_vars

\* the Match constructor, on every score text of the bound
NextMatch ==
    \/ /\ call.op = "idle"
       /\ \E sport \in {"soccer", "tennis"}, score \in ScoreTexts,
             date \in {DateGMT, DateISO} :
             CallMatchInit(sport, MatchInfo(score, date))
    \/ Finish

SpecMatch == Init /\ [][NextMatch]_vars

---------------------------------------------------------------------------
(* The claims. *)

Text_PremierLeague ==
    <<"P", "r", "e", "m", "i", "e", "r", " ", "L", "e", "a", "g", "u", "e">>

Text_TeamB ==
    <<"T", "e", "a", "m", " ", "B">>

Text_2Hyphen ==
    <<"2", " ", "-">>

Text_101_98 ==
    <<"1", "0", "1", "-", "9", "8">>

Text_730Lakers ==
    <<"7", ":", "3", "0", " ", "L", "a", "k", "e", "r", "s">>

\* text after its first ')'
AfterClose(text) == SliceFrom(text, Find(text, <<")">>) + 1)

\* the documented shape of a match text: "(league) home vs away: score", the
\* score holding a '-', and in the soccer format a second '-' before the time
Shaped(text, soccer) ==
    LET rest  == AfterClose(text)
        after == SliceFrom(rest, Find(rest, <<"v", "s">>) + 2)
        score == SliceFrom(after, Find(after, <<":">>) + 1)
    IN  /\ Find(text, <<"(">>) # -1
        /\ Find(text, <<"(">>) < Find(text, <<")">>)
        /\ Find(rest, <<"v", "s">>) # -1
        /\ ~Contains(Slice(rest, 0, Find(rest, <<"v", "s">>)), <<":">>)
        /\ Find(after, <<":">>) # -1
        /\ Find(score, <<"-">>) # -1
        /\ soccer => Contains(SliceFrom(score, Find(score, <<"-">>) + 1), <<"-">>)

\* every item of the feed carries a match text of the documented shape, in
\* the node the sport reads
FeedShaped(feed, sport) ==
    /\ feed.kind = "rss"
    /\ \A k \in 1..Len(feed.items) :
          Shaped(MatchText(sport, feed.items[k]), sport = SOCCER)

\* the teams the text of an item names: what lines 70-71 extract from it
HomeOf(sport, item) ==
    parse_match_info(MatchText(sport, item), sport = SOCCER).match_info["home_team"]

AwayOf(sport, item) ==
    parse_match_info(MatchText(sport, item), sport = SOCCER).match_info["away_team"]

\* C1: on a feed whose items have the documented shape, match(sport, team1,
\* team2) returns the record of the first item, in feed order, whose teams
\* satisfy [team1 in home] or ([team1 in away] and [team2 in away]) or
\* [team2 in home], and raises MatchError(sport, [team1, team2]) when the
\* feed is empty or no item satisfies the condition.
C1_FirstMatchingRecord ==
    (call.op = "match" /\ FeedShaped(call.feed, Lower(call.sport))) =>
        LET sport == Lower(call.sport)
            items == call.feed.items
            hits  == {k \in 1..Len(items) :
                        TeamsMatch(HomeOf(sport, items[k]), AwayOf(sport, items[k]),
                                   call.team1, call.team2)}
        IN  IF hits = {}
            THEN result = Raise("MatchError", <<sport, <<call.team1, call.team2>>>>)
            ELSE /\ result.kind = "return"
                 /\ result.value.attrs["home_team"] = HomeOf(sport, items[Min(hits)])
                 /\ result.value.attrs["away_team"] = AwayOf(sport, items[Min(hits)])

\* C2: for a feed of n items of the documented shape, get_sport_scores
\* returns a list of exactly n records, the k-th built from the k-th item:
\* from its description for soccer, from its title for any other sport.
C2_OneRecordPerItem ==
    (call.op = "get_sport_scores" /\ FeedShaped(call.feed, Lower(call.sport))) =>
        /\ result.kind = "return"
        /\ Len(result.value) = Len(call.feed.items)
        /\ \A k \in 1..Len(call.feed.items) :
              /\ result.value[k].sport = Lower(call.sport)
              /\ result.value[k].attrs["home_team"]
                     = HomeOf(Lower(call.sport), call.feed.items[k])
              /\ result.value[k].attrs["away_team"]
                     = AwayOf(Lower(call.sport), call.feed.items[k])

\* C3: _load_xml(sport) raises SportError(sport) both when the bytes are not
\* well-formed XML and when the XML has no channel under its root.
C3_DecoderRaisesSportError ==
    (call.op = "load_xml" /\ call.feed.kind \in {"malformed", "nochannel"}) =>
        result = Raise("SportError", <<call.sport>>)

C5_EmptyChannelEmptyList ==
    (call.op = "get_sport_scores" /\ call.feed.kind = "rss"
        /\ Len(call.feed.items) = 0) =>
        (result.kind = "return" /\ Len(result.value) = 0)

\* C5, its case: an empty channel was served for a sport outside the list
C5_Witness ==
    /\ call.op = "get_sport_scores"
    /\ call.sport = "cricket"
    /\ call.feed = Feed("rss", <<>>)
    /\ result.kind = "return"

\* C6 as stated: soccer extraction of "(Premier League) Team#A vs Team#B:
\* 2 - 1 45'" yields a mapping with league "Premier League", home_team
\* "Team A", away_team "Team B", the match_score of step 7 and a match_time.
C6_PremierYieldsMapping ==
    (call.op = "parse_match_info" /\ call.text = DescPremier /\ call.soccer) =>
        /\ result.kind = "return"
        /\ result.value["league"] = Text_PremierLeague
        /\ result.value["home_team"] = TeamA
        /\ result.value["away_team"] = Text_TeamB
        /\ result.value["match_score"] = Text_2Hyphen
        /\ "match_time" \in DOMAIN result.value

\* C6 as amended: soccer extraction of that text extracts league "Premier
\* League", home_team "Team A", away_team "Team B" and match_score "2 -", and
\* then raises ValueError at the search for a second '-' (the text has one
\* only): no match_time is extracted and no mapping is returned.
C6_PremierRaisesValueError ==
    (call.op = "parse_match_info" /\ call.text = DescPremier /\ call.soccer) =>
        /\ result = Raise("ValueError", <<>>)
        /\ DOMAIN match_info = {"league", "home_team", "away_team", "match_score"}
        /\ match_info["league"] = Text_PremierLeague
        /\ match_info["home_team"] = TeamA
        /\ match_info["away_team"] = Text_TeamB
        /\ match_info["match_score"] = Text_2Hyphen

\* C6, its case: the extractor was run on that text in soccer mode
C6_Witness ==
    /\ call.op = "parse_match_info"
    /\ call.text = DescPremier
    /\ call.soccer
    /\ result.kind = "raise"

\* C7: for the basketball item titled "(NBA) Lakers vs Celtics: 101-98" with
\* description "Q4 2:30", the record has match_score "101-98", match_time
\* "Q4 2:30", and match_date and match_link from the item's pubDate and guid.
C7_TitleYieldsScoreAndTime ==
    (call.op = "get_sport_scores" /\ Lower(call.sport) = "basketball"
        /\ call.feed = Feed("rss", <<Item(TitleNBA, DescNBA, DateGMT, GuidText)>>)) =>
        /\ result.kind = "return"
        /\ Len(result.value) = 1
        /\ result.value[1].raw["match_score"] = Text_101_98
        /\ result.value[1].raw["match_time"] = DescNBA
        /\ result.value[1].raw["match_date"] = DateGMT
        /\ result.value[1].raw["match_link"] = GuidText

\* text has no "vs" after its first ')' (or no ')' to look after)
NoVs(text) ==
    \/ Find(text, <<")">>) = -1
    \/ ~Contains(AfterClose(text), <<"v", "s">>)

\* C8: for a text with no "vs" after its first ')', extraction raises
\* ValueError in either mode, before any team is extracted, and returns no
\* mapping; get_sport_scores over a feed with such an item returns no list.
C8_NoVsRaises ==
    /\ (call.op = "parse_match_info" /\ NoVs(call.text)) =>
          /\ result = Raise("ValueError", <<>>)
          /\ DOMAIN match_info \subseteq {"league"}
    /\ (call.op = "get_sport_scores" /\ NoVs(call.text)) => result.kind = "raise"

\* C8, its case: a title with league and score but no "vs" was extracted
C8_Witness ==
    /\ call.op = "parse_match_info"
    /\ call.text = TitleNoVs
    /\ ~call.soccer
    /\ result.exc = "ValueError"
    /\ DOMAIN match_info = {"league"}

\* the first and the second part of a score text cut at its hyphens
BeforeFirstHyphen(text) == Slice(text, 0, Find(text, <<"-">>))

AfterFirstHyphen(text) == SliceFrom(text, Find(text, <<"-">>) + 1)

\* C9 as stated: for a match_score with a '-', home_score is the text before
\* the first '-' and away_score the entire text after it.
C9_CutAtFirstHyphen ==
    (call.op = "Match" /\ Contains(call.info["match_score"], <<"-">>)
        /\ call.info["match_date"] = DateGMT) =>
        /\ result.kind = "return"
        /\ result.value.home_score = BeforeFirstHyphen(call.info["match_score"])
        /\ result.value.away_score = AfterFirstHyphen(call.info["match_score"])

\* C9 as amended: home_score is the text before the first '-' and away_score
\* the text between the first '-' and the second, or the entire text after
\* the first when there is no second; what follows a second '-' is dropped.
C9_CutAtEveryHyphen ==
    (call.op = "Match" /\ Contains(call.info["match_score"], <<"-">>)
        /\ call.info["match_date"] = DateGMT) =>
        /\ result.kind = "return"
        /\ result.value.home_score = BeforeFirstHyphen(call.info["match_score"])
        /\ result.value.away_score =
              IF Contains(AfterFirstHyphen(call.info["match_score"]), <<"-">>)
              THEN BeforeFirstHyphen(AfterFirstHyphen(call.info["match_score"]))
              ELSE AfterFirstHyphen(call.info["match_score"])

\* C9, its case: a Match was built from a score with two hyphens and text
\* after the second
C9_Witness ==
    /\ call.op = "Match"
    /\ result.kind = "return"
    /\ call.info["match_score"] = <<"1", "-", "1", "-", "1">>
    /\ result.value.away_score = <<"1">>

\* text has a '(', a ')', a "vs" after the ')' and a ':' after that "vs"
HasTeams(text) ==
    /\ Find(text, <<"(">>) # -1
    /\ Find(text, <<")">>) # -1
    /\ Find(AfterClose(text), <<"v", "s">>) # -1
    /\ Contains(SliceFrom(AfterClose(text),
                          Find(AfterClose(text), <<"v", "s">>) + 2), <<":">>)

\* a team name as extracted from the characters of text from a up to b
TeamName(text, a, b) == Strip(Replace(Slice(text, a, b), "#", " "))

\* the position in rest of the first ':' at or after position from
ColonFrom(rest, from) == from + Find(SliceFrom(rest, from), <<":">>)

\* C10 as stated: the ':' that ends away_team is the first one after the
\* first "vs"; home_team is the text between ')' and "vs", away_team the text
\* between "vs" and that ':', each with '#' replaced by ' ' and trimmed.
C10_ColonAfterVs ==
    (call.op = "parse_match_info" /\ HasTeams(call.text)) =>
        LET rest == AfterClose(call.text)
            i_vs == Find(rest, <<"v", "s">>)
        IN  /\ {"home_team", "away_team"} \subseteq DOMAIN match_info
            /\ match_info["home_team"] = TeamName(rest, 0, i_vs)
            /\ match_info["away_team"]
                   = TeamName(rest, i_vs + 2, ColonFrom(rest, i_vs + 2))

\* C10 as amended: the ':' that ends away_team is the first one after the
\* first ')', wherever the "vs" is; home_team is the text between ')' and
\* "vs", away_team the text between "vs" and that ':', which is empty when
\* the ':' comes before the "vs"; each with '#' replaced by ' ' and trimmed.
C10_ColonAfterClose ==
    (call.op = "parse_match_info" /\ HasTeams(call.text)) =>
        LET rest == AfterClose(call.text)
            i_vs == Find(rest, <<"v", "s">>)
        IN  /\ {"home_team", "away_team"} \subseteq DOMAIN match_info
            /\ match_info["home_team"] = TeamName(rest, 0, i_vs)
            /\ match_info["away_team"] =
                  IF ColonFrom(rest, 0) < i_vs
                  THEN <<>>
                  ELSE TeamName(rest, i_vs + 2, ColonFrom(rest, 0))

\* C10, its case: a title with a ':' between the ')' and the "vs"
C10_Witness ==
    /\ call.op = "parse_match_info"
    /\ call.text = TitleEarlyColon
    /\ "away_team" \in DOMAIN match_info
    /\ match_info["away_team"] = <<>>
    /\ match_info["home_team"] = Text_730Lakers

===========================================================================
